---- MODULE Spec2Model ----
(***************************************************************************)
(* rpn - a CLI RPN calculator (marcopaganini/rpn).                         *)
(*                                                                         *)
(* The model covers the stack, the operation registry and dispatcher       *)
(* (operations.go), the read/evaluate loop (main) and the side effects of  *)
(* the number formatter on the values it is handed (decimal.go).           *)
(*                                                                         *)
(* The stack holds *decimal.Big pointers (operations.go:27,370-373), so    *)
(* the model keeps a heap of objects and the stack is a sequence of        *)
(* object ids: two cells may name the same object (dup), and the snapshot  *)
(* taken by save() shares its objects with the live stack.                 *)
(***************************************************************************)
EXTENDS Integers, Sequences, FiniteSets, TLC

(***************************************************************************)
(* Bounds of the model.                                                    *)
(***************************************************************************)
MaxLines == 2        \* lines read by the interactive loop
MaxTokens == 3       \* tokens per line
MaxOpStack == 3      \* stack depth enumerated for single dispatches
MaxFac == 6          \* largest operand whose factorial loop is unrolled
MaxPow == 3          \* largest exponent magnitude raised by ^

(***************************************************************************)
(* Decimal values.  A *decimal.Big is finite, +-Infinity or NaN.  Finite   *)
(* values are exact rationals n/d in lowest terms with d > 0 (rounding to  *)
(* the 34 digits of Context128 is not modelled); "unk" stands for a        *)
(* result the model does not compute (irrational powers and the like),     *)
(* and "big" for the integer 2^64 with the sign n, the least magnitude     *)
(* beyond uint64; arithmetic on it is left uncomputed.                     *)
(***************************************************************************)
Abs(x) == IF x < 0 THEN -x ELSE x

RECURSIVE GCD(_, _)
GCD(a, b) == IF b = 0 THEN a ELSE GCD(b, a % b)

Rat(n, d) ==
  LET g == GCD(Abs(n), Abs(d))
      s == IF d < 0 THEN -1 ELSE 1
  IN [k |-> "fin", n |-> (s * n) \div g, d |-> (s * d) \div g]

Inf(s) == [k |-> "inf", n |-> s, d |-> 1]
NaN == [k |-> "nan", n |-> 0, d |-> 1]
Unk == [k |-> "unk", n |-> 0, d |-> 1]

\* 10^12 (the Terabyte constant, ctx.Pow of 10 and 12) is beyond the
\* integers of the checker: it is kept as the uncomputed power n^d.
TenTo12 == [k |-> "unk", n |-> 10, d |-> 12]

big == Rat(0, 1)
bigUint(n) == Rat(n, 1)

IsFinite(x) == x.k = "fin"
IsNaN(x) == x.k = "nan"
IsInf(x) == x.k = "inf"
IsInt(x) == x.k = "fin" /\ x.d = 1
IsZero(x) == x.k = "fin" /\ x.n = 0

\* -1, 0 or +1; 0 for NaN.
Sign(x) == IF x.n < 0 THEN -1 ELSE IF x.n > 0 THEN 1 ELSE 0
Signbit(x) == x.n < 0

Neg(x) ==
  CASE x.k = "fin" -> Rat(-x.n, x.d)
    [] x.k = "inf" -> Inf(-x.n)
    [] x.k = "big" -> [x EXCEPT !.n = -x.n]
    [] OTHER -> x

SetSignbitFalse(x) ==
  CASE x.k = "fin" -> Rat(Abs(x.n), x.d)
    [] x.k = "inf" -> Inf(1)
    [] x.k = "big" -> [x EXCEPT !.n = 1]
    [] OTHER -> x

Add(x, y) ==
  CASE x.k = "nan" \/ y.k = "nan" -> NaN
    [] x.k \in {"unk", "big"} \/ y.k \in {"unk", "big"} -> Unk
    [] x.k = "inf" /\ y.k = "inf" -> IF x.n = y.n THEN x ELSE NaN
    [] x.k = "inf" -> x
    [] y.k = "inf" -> y
    [] OTHER -> Rat(x.n * y.d + y.n * x.d, x.d * y.d)

Sub(x, y) == Add(x, Neg(y))

Mul(x, y) ==
  CASE x.k = "nan" \/ y.k = "nan" -> NaN
    [] x.k \in {"unk", "big"} \/ y.k \in {"unk", "big"} -> Unk
    [] x.k = "inf" \/ y.k = "inf" ->
         IF IsZero(x) \/ IsZero(y) THEN NaN ELSE Inf(Sign(x) * Sign(y))
    [] OTHER -> Rat(x.n * y.n, x.d * y.d)

\* Quo(x, y) = x / y.  A zero divisor is not trapped: x/0 is an Infinity
\* with the sign of x and 0/0 is NaN.
Quo(x, y) ==
  CASE x.k = "nan" \/ y.k = "nan" -> NaN
    [] x.k \in {"unk", "big"} \/ y.k \in {"unk", "big"} -> Unk
    [] x.k = "inf" /\ y.k = "inf" -> NaN
    [] x.k = "inf" -> Inf(IF Signbit(y) THEN -x.n ELSE x.n)
    [] y.k = "inf" -> big
    [] IsZero(y) -> IF IsZero(x) THEN NaN ELSE Inf(Sign(x))
    [] OTHER -> Rat(x.n * y.d, x.d * y.n)

\* Floor(x): largest integer <= x (\div rounds towards minus infinity).
Floor_ceiling(x) == IF x.k = "fin" THEN Rat(-((-x.n) \div x.d), 1) ELSE x
Floor(x) == IF x.k = "fin" THEN Rat(x.n \div x.d, 1) ELSE x

\* Truncation towards zero of a finite value, as an integer.
TruncInt(x) == IF x.n >= 0 THEN x.n \div x.d ELSE -((-x.n) \div x.d)

\* Cmp on finite values: -1, 0, +1.
Cmp(x, y) ==
  LET l == x.n * y.d
      r == y.n * x.d
  IN IF l < r THEN -1 ELSE IF l > r THEN 1 ELSE 0

RECURSIVE IntPow(_, _)
IntPow(b, e) == IF e = 0 THEN 1 ELSE b * IntPow(b, e - 1)

\* Pow(x, y) = x ^ y, computed for finite x and integral y; every other
\* combination without NaN is left uncomputed.
Pow(x, y) ==
  CASE x.k = "nan" \/ y.k = "nan" -> NaN
    [] x.k = "fin" /\ IsInt(y) /\ y.n > 0 -> Rat(IntPow(x.n, y.n), IntPow(x.d, y.n))
    [] x.k = "fin" /\ IsInt(y) /\ y.n = 0 -> IF IsZero(x) THEN NaN ELSE bigUint(1)
    [] x.k = "fin" /\ IsInt(y) /\ y.n < 0 ->
         IF IsZero(x) THEN Inf(1)
         ELSE Rat(IntPow(x.d, -y.n), IntPow(x.n, -y.n))
    [] OTHER -> Unk

\* Rem(x, y): remainder of the truncating division x / y (sign of x).
Rem(x, y) ==
  CASE x.k = "nan" \/ y.k = "nan" -> NaN
    [] x.k \in {"unk", "big"} \/ y.k \in {"unk", "big"} -> Unk
    [] x.k = "inf" -> NaN
    [] y.k = "inf" -> x
    [] IsZero(y) -> NaN
    [] OTHER -> Sub(x, Mul(y, Rat(TruncInt(Quo(x, y)), 1)))


RECURSIVE Fact(_)
Fact(z) == IF z <= 0 THEN 1 ELSE z * Fact(z - 1)

(***************************************************************************)
(* Text.  A string is a sequence of one-character strings.                 *)
(***************************************************************************)
Digits == <<"0", "1", "2", "3", "4", "5", "6", "7", "8", "9",
            "a", "b", "c", "d", "e", "f">>
UpperDigits == <<"0", "1", "2", "3", "4", "5", "6", "7", "8", "9",
                 "A", "B", "C", "D", "E", "F">>

\* 2^64, the least magnitude no uint64 holds, as a decimal value (n is its
\* sign) and its decimal digits.
TwoTo64 == [k |-> "big", n |-> 1, d |-> 1]
TwoTo64Digits == <<"1", "8", "4", "4", "6", "7", "4", "4", "0", "7", "3", "7", "0", "9", "5", "5", "1", "6", "1", "6">>

\* fmt's %b, %o, %x (and %d) of an unsigned integer.
RECURSIVE FormatUint(_, _)
FormatUint(v, b) ==
  IF v < b THEN <<Digits[v + 1]>>
  ELSE FormatUint(v \div b, b) \o <<Digits[(v % b) + 1]>>

\* The first k digits after the point of r/d (0 <= r < d), by long division,
\* and the remainder left after them.
RECURSIVE FracDigits(_, _, _)
FracDigits(r, d, k) ==
  IF k = 0 THEN <<>> ELSE <<(r * 10) \div d>> \o FracDigits((r * 10) % d, d, k - 1)

RECURSIVE FracRem(_, _, _)
FracRem(r, d, k) == IF k = 0 THEN r ELSE FracRem((r * 10) % d, d, k - 1)

\* A digit string plus one: the digits and the carry out of the first one.
RECURSIVE Incr(_)
Incr(ds) ==
  IF ds = <<>> THEN [ds |-> <<>>, carry |-> 1]
  ELSE LET n == Len(ds)
       IN IF ds[n] < 9
          THEN [ds |-> [ds EXCEPT ![n] = ds[n] + 1], carry |-> 0]
          ELSE LET h == Incr(SubSeq(ds, 1, n - 1))
               IN [ds |-> h.ds \o <<0>>, carry |-> h.carry]

\* Rounding to nearest, ties to even: ds are the digits kept, rem the
\* remainder left after them (over d), ip the integer part.
Rounded(ip, ds, rem, d, prec) ==
  IF 2 * rem > d \/ (2 * rem = d /\ (IF prec = 0 THEN ip % 2 ELSE ds[prec] % 2) = 1)
  THEN Incr(ds)
  ELSE [ds |-> ds, carry |-> 0]

\* Sign, integer part, point and the prec rounded digits.
FloatText(x, prec, ip, inc) ==
  (IF x.n < 0 THEN <<"-">> ELSE <<>>)
    \o (IF x.k = "big" THEN TwoTo64Digits ELSE FormatUint(ip + inc.carry, 10))
    \o (IF prec > 0 THEN <<".">> \o [i \in 1..prec |-> Digits[inc.ds[i] + 1]] ELSE <<>>)

\* fmt.Sprintf("%.<prec>f", x) of a finite decimal: sign, integer part and
\* exactly prec digits after the point, rounded to nearest (ties to even).
FormatFloat(x, prec) ==
  FloatText(x, prec, Abs(x.n) \div x.d,
            Rounded(Abs(x.n) \div x.d,
                    FracDigits(Abs(x.n) % x.d, x.d, prec),
                    FracRem(Abs(x.n) % x.d, x.d, prec), x.d, prec))

Contains(s, c) == \E i \in 1..Len(s) : s[i] = c
\* strings.Index: 0-based position of the first c, -1 when there is none.
Index(s, c) ==
  IF Contains(s, c) THEN (CHOOSE i \in 1..Len(s) :
                            s[i] = c /\ \A j \in 1..(i - 1) : s[j] # c) - 1
  ELSE -1

RECURSIVE TrimRight(_, _)
TrimRight(s, c) ==
  IF s # <<>> /\ s[Len(s)] = c THEN TrimRight(SubSeq(s, 1, Len(s) - 1), c) ELSE s

\* The second half of stripTrailingDigits: t is cut after <digits> places
\* behind the point at 0-based position i, if there is one.
TrimToDigits(t, i, digits) ==
  IF i >= 0
  THEN IF digits <= 0 THEN SubSeq(t, 1, i)
       ELSE IF (i + 1) + digits >= Len(t) THEN t
       ELSE SubSeq(t, 1, (i + 1) + digits)
  ELSE t

TrimZeroes(s) == IF Contains(s, ".") THEN TrimRight(TrimRight(s, "0"), ".") ELSE s

PointOf(t, digits) == TrimToDigits(t, Index(t, "."), digits)

stripTrailingDigits(s, digits) == PointOf(TrimZeroes(s), digits)

\* The grouping loop of commafWithDigits: three characters and a comma from
\* position pos (0-based) on.
RECURSIVE Group3(_, _)
Group3(p, pos) ==
  IF pos < Len(p)
  THEN SubSeq(p, pos + 1, pos + 3) \o <<",">> \o Group3(p, pos + 3)
  ELSE <<>>

\* The integer part p with a comma after every group, the last one too.
Grouped(p) ==
  (IF Len(p) % 3 # 0 THEN SubSeq(p, 1, Len(p) % 3) \o <<",">> ELSE <<>>)
    \o Group3(p, Len(p) % 3)

\* buf.Truncate(buf.Len() - 1): the last comma is dropped.
Truncate(s) == SubSeq(s, 1, Len(s) - 1)

\* The grouped text of f, whose point is at 0-based position i (-1: none).
CommaParts(sgn, f, i, decimals) ==
  stripTrailingDigits(
    IF i >= 0
    THEN sgn \o Truncate(Grouped(SubSeq(f, 1, i))) \o <<".">> \o SubSeq(f, i + 2, Len(f))
    ELSE sgn \o Truncate(Grouped(f)), decimals)

CommaText(sgn, f, decimals) == CommaParts(sgn, f, Index(f, "."), decimals)

commafWithDigits_ungrouped(n, decimals) ==
  stripTrailingDigits(FormatFloat(n, decimals), decimals)
commafWithDigits(n, decimals) ==
  CommaText(IF Sign(n) < 0 THEN <<"-">> ELSE <<>>,
            FormatFloat(IF Sign(n) < 0 THEN SetSignbitFalse(n) ELSE n, decimals),
            decimals)

InvalidNumber_vague == <<"I", "n", "v", "a", "l", "i", "d", " ", "n", "u", "m", "b", "e", "r">>
InvalidNumber ==
  <<"I", "n", "v", "a", "l", "i", "d", " ", "n", "u", "m", "b", "e", "r", ":", " ", "n", "o", "n", " ", "d", "e", "c", "i", "m", "a", "l", " ", "b", "a", "s", "e", " ", "o", "n", "l", "y", " ", "s", "u", "p", "p", "o", "r", "t", "s", " ", "u", "i", "n", "t", "6", "4", " ", "n", "u", "m", "b", "e", "r", "s", ".">>

\* The switch on the base, for the magnitude fl handed to n.Uint64().
BaseText(bs, sgn, fl, clean, suffix) ==
  IF fl.k # "fin" THEN InvalidNumber
  ELSE CASE bs = 2 -> sgn \o <<"0", "b">> \o FormatUint(fl.n, 2) \o suffix
         [] bs = 8 -> sgn \o <<"0">> \o FormatUint(fl.n, 8) \o suffix
         [] bs = 16 -> sgn \o <<"0", "x">> \o FormatUint(fl.n, 16) \o suffix
         [] OTHER -> sgn \o clean \o suffix

\* base != 10: the sign is written and dropped, a non-integral magnitude m
\* is floored and the suffix names the original value.
NonDecimal(bs, sgn, m, clean) ==
  IF IsInt(m) \/ m.k = "big"
  THEN BaseText(bs, sgn, m, clean, <<>>)
  ELSE BaseText(bs, sgn, Floor(m), clean,
                <<" ", "(", "t", "r", "u", "n", "c", "a", "t", "e", "d", " ", "f", "r", "o", "m", " ">>
                  \o clean \o <<")">>)

\* base 10: clean, and the humanized text h when it differs (not in
\* single-command mode).
Decimal(clean, h, sgl) ==
  IF h # clean /\ ~sgl THEN clean \o <<" ", "(">> \o h \o <<")">> ELSE clean

\* formatNumber: the text it returns.
formatNumber(n, bs, decimals, sgl) ==
  IF IsNaN(n) THEN <<"N", "a", "N">>
  ELSE IF IsInf(n)
       THEN (IF Signbit(n) THEN <<"-">> ELSE <<>>) \o <<"I", "n", "f", "i", "n", "i", "t", "y">>
  ELSE IF n.k = "unk" THEN <<"?">>
  ELSE IF bs # 10
       THEN NonDecimal(bs, IF Signbit(n) THEN <<"-">> ELSE <<>>,
                       IF Signbit(n) THEN SetSignbitFalse(n) ELSE n,
                       stripTrailingDigits(FormatFloat(n, decimals), decimals))
       ELSE Decimal(stripTrailingDigits(FormatFloat(n, decimals), decimals),
                    commafWithDigits(n, decimals), sgl)

(***************************************************************************)
(* The machine state handed to handlers: the stack (a sequence of object   *)
(* ids, top last), the heap of decimal objects, and the display context    *)
(* of opsType (base, decimals, degmode, debug).                            *)
(***************************************************************************)
MaxOf(S) == CHOOSE m \in S : \A o \in S : o <= m
NewId(heap) == IF DOMAIN heap = {} THEN 1 ELSE MaxOf(DOMAIN heap) + 1

\* Values of the cells of a sequence of object ids.
Vals(seq, heap) == [i \in 1..Len(seq) |-> heap[seq[i]]]

Reverse_rotated(seq) == [i \in 1..Len(seq) |-> seq[(i % Len(seq)) + 1]]
Reverse(seq) == [i \in 1..Len(seq) |-> seq[Len(seq) + 1 - i]]

\* The value formatNumber leaves in the object it was handed: in a base
\* other than 10 the sign bit is cleared and a fraction is floored in place.
formatNumberLeaves(n, base) ==
  IF IsNaN(n) \/ IsInf(n) \/ n.k = "unk" THEN n
  ELSE IF base # 10
       THEN LET m == IF Signbit(n) THEN SetSignbitFalse(n) ELSE n
            IN IF ~IsInt(m) THEN Floor(m) ELSE m
       ELSE n

\* stack.print: formatNumber on every cell, top first (the cell formatted
\* last is the bottom one; a cell that shares its object with a cell above
\* is formatted as the earlier call left it).
print(st) ==
  LET h == [o \in DOMAIN st.heap |->
              IF \E i \in 1..Len(st.list) : st.list[i] = o
              THEN formatNumberLeaves(st.heap[o], st.base) ELSE st.heap[o]]
      o1 == st.list[1]
      seen == \E i \in 2..Len(st.list) : st.list[i] = o1
  IN [st EXCEPT !.heap = h,
                !.out = IF Len(st.list) = 0 THEN st.out
                        ELSE formatNumber(IF seen THEN h[o1] ELSE st.heap[o1],
                                          st.base, st.decimals, st.single)]

\* stack.printTop: formatNumber on top(); top() of an empty stack is a
\* fresh zero, so nothing on the stack is touched.
printTop(st) ==
  IF Len(st.list) = 0
  THEN [st EXCEPT !.out = formatNumber(big, st.base, st.decimals, st.single)]
  ELSE LET o == st.list[Len(st.list)]
       IN [st EXCEPT !.heap[o] = formatNumberLeaves(st.heap[o], st.base),
                     !.out = formatNumber(st.heap[o], st.base, st.decimals, st.single)]

push_resets_base(st, ids) == [st EXCEPT !.list = st.list \o ids, !.base = 10]
push(st, ids) == [st EXCEPT !.list = st.list \o ids]
clear(st) == [st EXCEPT !.list = <<>>]

(***************************************************************************)
(* The operation registry (newOpsType).  A token is a sequence of          *)
(* one-character strings; each descriptor carries its token op, the name h *)
(* of its handler in fn below and its numArgs.  The entries whose results  *)
(* the model does not compute (roots, trigonometry, logarithms, and the    *)
(* binary constants MIB, GIB, TIB) are not listed.                         *)
(***************************************************************************)
ops ==
  << [op |-> <<"+">>, h |-> "+", numArgs |-> 2],
     [op |-> <<"-">>, h |-> "-", numArgs |-> 2],
     [op |-> <<"*">>, h |-> "*", numArgs |-> 2],
     [op |-> <<"/">>, h |-> "/", numArgs |-> 2],
     [op |-> <<"c", "h", "s">>, h |-> "chs", numArgs |-> 1],
     [op |-> <<"i", "n", "v">>, h |-> "inv", numArgs |-> 1],
     [op |-> <<"^">>, h |-> "^", numArgs |-> 2],
     [op |-> <<"m", "o", "d">>, h |-> "mod", numArgs |-> 2],
     [op |-> <<"%">>, h |-> "%", numArgs |-> 2],
     [op |-> <<"s", "u", "m">>, h |-> "sum", numArgs |-> 1],
     [op |-> <<"f", "a", "c">>, h |-> "fac", numArgs |-> 1],
     [op |-> <<"l", "s", "h", "i", "f", "t">>, h |-> "lshift", numArgs |-> 2],
     [op |-> <<"r", "s", "h", "i", "f", "t">>, h |-> "rshift", numArgs |-> 2],
     [op |-> <<"p">>, h |-> "p", numArgs |-> 0],
     [op |-> <<"c">>, h |-> "c", numArgs |-> 0],
     [op |-> <<"=">>, h |-> "=", numArgs |-> 0],
     [op |-> <<"d">>, h |-> "d", numArgs |-> 1],
     [op |-> <<"d", "u", "p">>, h |-> "dup", numArgs |-> 1],
     [op |-> <<"x">>, h |-> "x", numArgs |-> 2],
     [op |-> <<"C">>, h |-> "C", numArgs |-> 0],
     [op |-> <<"K", "B">>, h |-> "KB", numArgs |-> 0],
     [op |-> <<"M", "B">>, h |-> "MB", numArgs |-> 0],
     [op |-> <<"G", "B">>, h |-> "GB", numArgs |-> 0],
     [op |-> <<"M", "B">>, h |-> "TB", numArgs |-> 0],
     [op |-> <<"K", "I", "B">>, h |-> "KIB", numArgs |-> 0],
     [op |-> <<"d", "e", "c">>, h |-> "dec", numArgs |-> 0],
     [op |-> <<"b", "i", "n">>, h |-> "bin", numArgs |-> 0],
     [op |-> <<"o", "c", "t">>, h |-> "oct", numArgs |-> 0],
     [op |-> <<"h", "e", "x">>, h |-> "hex", numArgs |-> 0],
     [op |-> <<"d", "e", "g">>, h |-> "deg", numArgs |-> 0],
     [op |-> <<"r", "a", "d">>, h |-> "rad", numArgs |-> 0],
     [op |-> <<"f", "m", "t">>, h |-> "fmt", numArgs |-> 0],
     [op |-> <<"d", "e", "b", "u", "g">>, h |-> "debug", numArgs |-> 0] >>

\* opmap: token -> descriptor; a later entry of the same name replaces an
\* earlier one (map assignment in registry order).
InOpmap(token) == \E i \in 1..Len(ops) : ops[i].op = token
opmap(token) ==
  ops[CHOOSE i \in 1..Len(ops) :
        /\ ops[i].op = token
        /\ \A j \in 1..Len(ops) : ops[j].op = token => j <= i]

\* Big.Uint64: the value truncated towards zero and whether the conversion
\* succeeded.  Infinities and NaN fail.  For a negative value the outcome
\* depends on the library version (magnitude accepted, or failure), so both
\* are possible.
Uint64(x) ==
  CASE x.k # "fin" -> {[v |-> 0, ok |-> FALSE]}
    [] x.n >= 0 -> {[v |-> TruncInt(x), ok |-> TRUE]}
    [] OTHER -> {[v |-> -TruncInt(x), ok |-> TRUE], [v |-> 0, ok |-> FALSE]}

\* bigToUint64: the converted value (a note is printed when not ok).
bigToUint64(x) == {r.v : r \in Uint64(x)}

\* Width of the shift operands.
WordBits == 64

(***************************************************************************)
(* Handler outcomes.  kind is "ok" (values returned), "err" (error         *)
(* returned), "panic" (index out of range: the process dies) or "hang"     *)
(* (the handler never returns).  st is the machine state the handler       *)
(* leaves behind: handlers may write the stack, the heap and the display   *)
(* context themselves.                                                     *)
(***************************************************************************)
Outcome(kind, ret, remove, st) ==
  [kind |-> kind, ret |-> ret, remove |-> remove, st |-> st]

\* return []*decimal.Big{v}, remove, nil with v a newly allocated object
RetNew(st, v, remove) ==
  LET o == NewId(st.heap)
  IN {Outcome("ok", <<o>>, remove, [st EXCEPT !.heap = (o :> v) @@ st.heap])}

\* return nil, remove, nil
RetNil_one_more(st, remove) == {Outcome("ok", <<>>, remove + 1, st)}
RetNil(st, remove) == {Outcome("ok", <<>>, remove, st)}

\* Number of leading argument positions the handler body indexes.
Reads(h) ==
  CASE h \in {"+", "-", "*", "/", "^", "mod", "%", "lshift", "rshift", "x"} -> 2
    [] h \in {"chs", "inv", "fac", "dup", "fmt"} -> 1
    [] OTHER -> 0

\* x << n and x >> n on uint64 (a count of WordBits or more gives 0; within
\* the bounds of the model no product reaches 2^WordBits).
Lsh(y, x) == IF x >= WordBits THEN 0 ELSE y * IntPow(2, x)
Rsh(y, x) == IF x >= WordBits THEN 0 ELSE y \div IntPow(2, x)

SumAll_skips_top(a, heap, i) == IF Len(a) = 0 THEN big ELSE heap[a[Len(a)]]
RECURSIVE SumAll(_, _, _)
SumAll(a, heap, i) ==
  IF i > Len(a) THEN big ELSE Add(SumAll(a, heap, i + 1), heap[a[i]])

\* The fac handler: floor, sign test, then the multiplication loop.  The
\* loop never ends for +Infinity (ix.Cmp(z) <= 0 forever); Sign and Cmp of
\* a NaN are unspecified, so every way through the handler is possible.
fac_loop_short(st, x) ==
  LET z == Floor(x)
  IN IF z.k = "fin" /\ z.n >= 1
     THEN RetNew(st, bigUint(Fact(z.n - 1)), 1)
     ELSE {Outcome("err", <<>>, 1, st)}
fac(st, x) ==
  LET z == Floor(x)
      e == Outcome("err", <<>>, 1, st)
      hang == Outcome("hang", <<>>, 0, st)
  IN CASE IsNaN(z) -> {e, hang} \cup RetNew(st, bigUint(1), 1)
       [] Sign(z) < 0 -> {e}
       [] IsInf(z) -> {hang}
       [] OTHER -> RetNew(st, bigUint(Fact(z.n)), 1)

\* The deg handler: angles in degrees, output back in base 10.
deg_keeps_base(st) == [st EXCEPT !.degmode = TRUE]
deg(st) == [st EXCEPT !.base = 10, !.degmode = TRUE]

\* The fmt handler: a[0].Uint64(), then the IsInt test.
fmt(st, x) ==
  { IF ~r.ok \/ ~IsInt(x)
    THEN Outcome("err", <<>>, 1, st)
    ELSE Outcome("ok", <<>>, 1, [st EXCEPT !.decimals = r.v]) : r \in Uint64(x) }

\* args: a copy of all elements of the stack, reversed (x first).
args_unreversed(st) == st.list
args(st) == Reverse(st.list)

\* The "/" handler: ctx.Quo(big(), a[1], a[0]) with no test of the divisor.
divide_trapping(st, num, den) ==
  IF IsZero(den) THEN {Outcome("err", <<>>, 0, st)}
  ELSE RetNew(st, Quo(num, den), 2)
divide(st, num, den) == RetNew(st, Quo(num, den), 2)

(***************************************************************************)
(* fn(h, a, st): the handler h run on the argument list a (the whole       *)
(* stack reversed, a[1] is x and a[2] is y) in machine state st.  The      *)
(* result is the set of possible outcomes.                                 *)
(***************************************************************************)
fn(h, a, st) ==
  LET x == st.heap[a[1]]
      y == st.heap[a[2]]
  IN IF Len(a) < Reads(h) THEN {Outcome("panic", <<>>, 0, st)}
     ELSE CASE h = "+" -> RetNew(st, Add(x, y), 2)
            [] h = "-" -> RetNew(st, Sub(y, x), 2)
            [] h = "*" -> RetNew(st, Mul(x, y), 2)
            [] h = "/" -> divide(st, y, x)
            [] h = "chs" ->
                 {Outcome("ok", <<a[1]>>, 1, [st EXCEPT !.heap[a[1]] = Neg(x)])}
            [] h = "inv" -> RetNew(st, Quo(bigUint(1), x), 1)
            [] h = "^" -> RetNew(st, Pow(y, x), 2)
            [] h = "mod" -> RetNew(st, Rem(y, x), 2)
            [] h = "%" -> RetNew(st, Quo(Mul(x, y), bigUint(100)), 1)
            [] h = "sum" -> RetNew(st, SumAll(a, st.heap, 1), Len(a))
            [] h = "fac" -> fac(st, x)
            [] h = "lshift" ->
                 UNION {RetNew(st, bigUint(Lsh(yy, xx)), 2) :
                          <<xx, yy>> \in bigToUint64(x) \X bigToUint64(y)}
            [] h = "rshift" ->
                 UNION {RetNew(st, bigUint(Rsh(yy, xx)), 2) :
                          <<xx, yy>> \in bigToUint64(x) \X bigToUint64(y)}
            [] h = "p" -> RetNil(print(st), 0)
            [] h = "c" -> RetNil(clear(st), 0)
            [] h = "=" -> RetNil(printTop(st), 0)
            [] h = "d" -> RetNil(st, 1)
            [] h = "dup" -> RetNil(push(st, <<a[1]>>), 0)
            [] h = "x" -> {Outcome("ok", <<a[1], a[2]>>, 2, st)}
            [] h = "C" -> RetNew(st, bigUint(299792458), 0)
            [] h = "KB" -> RetNew(st, Pow(bigUint(10), bigUint(3)), 0)
            [] h = "MB" -> RetNew(st, Pow(bigUint(10), bigUint(6)), 0)
            [] h = "GB" -> RetNew(st, Pow(bigUint(10), bigUint(9)), 0)
            [] h = "TB" -> RetNew(st, TenTo12, 0)
            [] h = "KIB" -> RetNew(st, Pow(bigUint(2), bigUint(10)), 0)
            [] h = "dec" -> RetNil([st EXCEPT !.base = 10, !.degmode = FALSE], 0)
            [] h = "bin" -> RetNil([st EXCEPT !.base = 2, !.degmode = FALSE], 0)
            [] h = "oct" -> RetNil([st EXCEPT !.base = 8, !.degmode = FALSE], 0)
            [] h = "hex" -> RetNil([st EXCEPT !.base = 16, !.degmode = FALSE], 0)
            [] h = "deg" -> RetNil(deg(st), 0)
            [] h = "rad" -> RetNil([st EXCEPT !.base = 10, !.degmode = FALSE], 0)
            [] h = "fmt" -> fmt(st, x)
            [] h = "debug" -> RetNil([st EXCEPT !.debug = ~st.debug], 0)

(***************************************************************************)
(* operation(handler, st): one dispatch.  Each result records whether the  *)
(* handler was invoked (called) and, for a successful dispatch, the values *)
(* returned and the count removed.                                         *)
(***************************************************************************)
Result(kind, called, ret, remove, st) ==
  [kind |-> kind, called |-> called, ret |-> ret, remove |-> remove, st |-> st]

operationAfter(handler, o) ==
  CASE o.kind = "panic" -> Result("panic", TRUE, <<>>, 0, o.st)
    [] o.kind = "hang" -> Result("hang", TRUE, <<>>, 0, o.st)
    [] o.kind = "err" -> Result("err", TRUE, <<>>, 0, o.st)
    [] o.remove > 0 /\ Len(o.st.list) < o.remove ->
         Result("internal", TRUE, <<>>, 0, o.st)
    [] OTHER ->
         Result("ok", TRUE, o.ret, o.remove,
                push([o.st EXCEPT !.list =
                        SubSeq(o.st.list, 1, Len(o.st.list) - o.remove)], o.ret))

\* The arity check of operation(): TRUE when the stack is too short.
underflow_always_pass(length, numArgs) == FALSE
underflow(length, numArgs) == length < numArgs

operation(handler, st) ==
  LET length == Len(st.list)
  IN IF underflow(length, handler.numArgs)
     THEN {Result("err", FALSE, <<>>, 0, st)}
     ELSE {operationAfter(handler, o) : o \in fn(handler.h, args(st), st)}

(***************************************************************************)
(* Object ids are renumbered in order of first use by the stack and the    *)
(* snapshot after every step, and unreferenced objects are dropped: the    *)
(* identity of an object matters only through which cells share it.        *)
(***************************************************************************)
Canon(l, sv, hp) ==
  LET ids == l \o sv
      First(i) == \A j \in 1..(i - 1) : ids[j] # ids[i]
      Rank(i) == Cardinality({j \in 1..i : First(j)})
      FirstIdx(o) == CHOOSE i \in 1..Len(ids) : ids[i] = o /\ First(i)
      New(o) == Rank(FirstIdx(o))
      K == Cardinality({ids[i] : i \in 1..Len(ids)})
  IN [list |-> [i \in 1..Len(l) |-> New(l[i])],
      saved |-> [i \in 1..Len(sv) |-> New(sv[i])],
      heap |-> [r \in 1..K |->
                  hp[ids[CHOOSE i \in 1..Len(ids) : First(i) /\ Rank(i) = r]]]]

VARIABLES
  list,        \* stackType.list: object ids, top of stack last
  savedList,   \* stackType.savedList: the snapshot taken by save()
  heap,        \* the *decimal.Big objects, by id
  base,        \* opsType.base
  decimals,    \* opsType.decimals
  degmode,     \* opsType.degmode
  debug,       \* opsType.debug
  single,      \* single-command mode (the flag handed to formatNumber)
  out,         \* the text formatNumber returned last
  autoprint,   \* main: autoprint flag of the line being processed
  pc,          \* position of the program
  nlines,      \* lines read so far
  ntok,        \* tokens of the current line taken so far
  tok,         \* the token taken last
  line,        \* the tokens of the current line taken so far
  input,       \* the text of the line as it was read (empty: the text is left open)
  last,        \* record of the most recent dispatch
  lineStart,   \* values on the stack when the current line began
  failed,      \* an error was reported on the current line
  afterFail,   \* a token was pushed or executed after an error on the line
  changed,     \* an operation of the line consumed or produced cells
  printed,     \* the line just finished signalled auto-print
  one,         \* the same tokens evaluated as one single line
  clean        \* no error was reported since the start

vars == <<list, savedList, heap, base, decimals, degmode, debug, single, out, autoprint,
          pc, nlines, ntok, tok, line, input, last, lineStart, failed, afterFail,
          changed, printed, one, clean>>

St == [list |-> list, heap |-> heap, base |-> base, decimals |-> decimals,
       degmode |-> degmode, debug |-> debug, single |-> single, out |-> out]

NoDispatch ==
  [h |-> "none", numArgs |-> 0, pre |-> <<>>, kind |-> "none", called |-> FALSE,
   ret |-> <<>>, remove |-> 0]

\* A new machine (newOpsType with an empty stack) and the single-line
\* evaluation before any token.
EmptySt == [list |-> <<>>, heap |-> <<>>, base |-> 10, decimals |-> 6,
            degmode |-> FALSE, debug |-> FALSE, single |-> FALSE, out |-> <<>>]
NoOne == [st |-> EmptySt, autoprint |-> FALSE]

Dispatch(handler, st, r) ==
  [h |-> handler.h, numArgs |-> handler.numArgs, pre |-> Vals(st.list, st.heap),
   kind |-> r.kind, called |-> r.called, ret |-> Vals(r.ret, r.st.heap),
   remove |-> r.remove]

\* Guards that keep the arithmetic of a dispatch inside the bounds.
InBounds(handler, st) ==
  LET n == Len(st.list)
      x == st.heap[st.list[n]]
  IN /\ (handler.h = "fac" /\ n >= 1 /\ x.k = "fin") => Floor(x).n <= MaxFac
     /\ (handler.h = "fac" /\ n >= 1) => x.k # "big"
     /\ (handler.h = "^" /\ n >= 2 /\ IsInt(x)) => Abs(x.n) <= MaxPow

\* The program state after a step that leaves machine state st and
\* snapshot sv.
SetMachine(st, sv) ==
  LET c == Canon(st.list, sv, st.heap)
  IN /\ list' = c.list
     /\ savedList' = c.saved
     /\ heap' = c.heap
     /\ base' = st.base
     /\ decimals' = st.decimals
     /\ degmode' = st.degmode
     /\ debug' = st.debug
     /\ single' = st.single
     /\ out' = st.out

(***************************************************************************)
(* atof: numeric literals.  A leading 0x/0X selects base 16 and a leading  *)
(* 0 or o base 8 (strconv.ParseUint); everything else goes to              *)
(* strconv.ParseFloat.  ParseFloat is modelled on plain decimal literals   *)
(* (sign, digits, one optional point); exponents, hexadecimal floats and   *)
(* the words inf/nan are outside the token alphabet of the model.          *)
(***************************************************************************)
\* Value of a digit character, or 99 when it is not a digit.
DigitVal(c) ==
  IF \E i \in 1..16 : Digits[i] = c
  THEN (CHOOSE i \in 1..16 : Digits[i] = c) - 1
  ELSE IF \E i \in 1..16 : UpperDigits[i] = c
       THEN (CHOOSE i \in 1..16 : UpperDigits[i] = c) - 1
       ELSE 99

HasPrefix(s, pre) == Len(s) >= Len(pre) /\ SubSeq(s, 1, Len(pre)) = pre
Tail2(s, k) == SubSeq(s, k + 1, Len(s))

AllDigits(s, b) == \A i \in 1..Len(s) : DigitVal(s[i]) < b

RECURSIVE DigitsValue(_, _, _)
DigitsValue(s, b, i) ==
  IF i = 0 THEN 0 ELSE DigitsValue(s, b, i - 1) * b + DigitVal(s[i])

ParseUint(s, b) ==
  IF Len(s) = 0 \/ ~AllDigits(s, b)
  THEN [err |-> TRUE, v |-> big]
  ELSE [err |-> FALSE, v |-> bigUint(DigitsValue(s, b, Len(s)))]

ParseFloat(s) ==
  LET signed == Len(s) > 0 /\ s[1] \in {"+", "-"}
      m == IF signed THEN Tail2(s, 1) ELSE s
      dots == {i \in 1..Len(m) : m[i] = "."}
      ip == IF dots = {} THEN m ELSE SubSeq(m, 1, (CHOOSE i \in dots : TRUE) - 1)
      fp == IF dots = {} THEN <<>> ELSE Tail2(m, CHOOSE i \in dots : TRUE)
      ok == /\ Cardinality(dots) <= 1
            /\ Len(ip) + Len(fp) > 0
            /\ AllDigits(ip, 10) /\ AllDigits(fp, 10)
      mag == Rat(DigitsValue(ip \o fp, 10, Len(ip) + Len(fp)), IntPow(10, Len(fp)))
  IN IF ~ok THEN [err |-> TRUE, v |-> big]
     ELSE [err |-> FALSE, v |-> IF signed /\ s[1] = "-" THEN Neg(mag) ELSE mag]

atof(s) ==
  CASE (HasPrefix(s, <<"0", "x">>) \/ HasPrefix(s, <<"0", "X">>)) /\ Len(s) > 2 ->
         ParseUint(Tail2(s, 2), 16)
    [] (HasPrefix(s, <<"0">>) \/ HasPrefix(s, <<"o">>)) /\ Len(s) > 1 ->
         ParseUint(Tail2(s, 1), 8)
    [] OTHER -> ParseFloat(s)

(***************************************************************************)
(* SpecOp: one dispatch of any registered operation, or one push of a      *)
(* numeric literal, on any stack of up to MaxOpStack cells over OpVals,    *)
(* cells possibly sharing objects.                                         *)
(***************************************************************************)
OpVals ==
  {Rat(-2, 1), Rat(0, 1), Rat(1, 2), Rat(2, 1), Rat(5, 1), Rat(10, 1), Inf(1), NaN}
OpBases == {10, 16}

OpStacks ==
  {l \in UNION {[1..n -> 1..n] : n \in 0..MaxOpStack} :
     \A i \in 1..Len(l) :
        \/ \E j \in 1..(i - 1) : l[j] = l[i]
        \/ l[i] = Cardinality({l[j] : j \in 1..(i - 1)}) + 1}

InitOp ==
  /\ list \in OpStacks
  /\ heap \in [1..Cardinality({list[i] : i \in 1..Len(list)}) -> OpVals]
  /\ savedList = <<>>
  /\ base \in OpBases
  /\ decimals = 6
  /\ degmode = FALSE
  /\ debug = FALSE
  /\ single = FALSE
  /\ out = <<>>
  /\ autoprint = FALSE
  /\ pc = "ready"
  /\ nlines = 0
  /\ ntok = 0
  /\ tok = <<>>
  /\ line = <<>>
  /\ input = <<>>
  /\ last = NoDispatch
  /\ lineStart = <<>>
  /\ failed = "none"
  /\ afterFail = FALSE
  /\ changed = FALSE
  /\ printed = FALSE
  /\ one = NoOne
  /\ clean = TRUE

Apply(i) ==
  /\ pc = "ready"
  /\ LET handler == opmap(ops[i].op)
     IN /\ InBounds(handler, St)
        /\ \E r \in operation(handler, St) :
             /\ SetMachine(r.st, savedList)
             /\ last' = Dispatch(handler, St, r)
             /\ pc' = "done"
  /\ tok' = ops[i].op
  /\ UNCHANGED <<autoprint, nlines, ntok, line, input, lineStart, failed,
                 afterFail, changed, printed, one, clean>>

\* A numeric literal instead of an operation: atof and stack.push.
OpLiterals == {<<"1">>, <<"0", "x", "1", "f">>}

Push(token) ==
  /\ pc = "ready"
  /\ ~atof(token).err
  /\ LET o == NewId(heap)
     IN SetMachine(push([St EXCEPT !.heap = (o :> atof(token).v) @@ heap], <<o>>),
                   savedList)
  /\ last' = [h |-> "push", numArgs |-> 0, pre |-> Vals(list, heap), kind |-> "ok",
              called |-> FALSE, ret |-> <<atof(token).v>>, remove |-> 0]
  /\ tok' = token
  /\ pc' = "done"
  /\ UNCHANGED <<autoprint, nlines, ntok, line, input, lineStart, failed,
                 afterFail, changed, printed, one, clean>>

NextOp ==
  \/ \E i \in 1..Len(ops) : Apply(i)
  \/ \E token \in OpLiterals : Push(token)

SpecOp == InitOp /\ [][NextOp]_vars

(***************************************************************************)
(* SpecFmt: one call of stack.printTop, that is formatNumber on the top of *)
(* the stack, for any value of FmtVals in any base, with any number of     *)
(* decimals of FmtDecimals, in interactive and in single-command mode.     *)
(***************************************************************************)
FmtVals ==
  {Rat(0, 1), Rat(1, 1), Rat(8, 1), Rat(255, 1), Rat(999, 1), Rat(1000, 1),
   Rat(1234567, 1), Rat(-1000, 1), Rat(-255, 1), Rat(1, 2), Rat(511, 2),
   Rat(-511, 2), Rat(2, 3), Rat(30001, 3), TwoTo64, Neg(TwoTo64),
   Inf(1), Inf(-1), NaN}
FmtBases == {2, 8, 10, 16}
FmtDecimals == {2, 6}

InitFmt ==
  /\ list = <<1>>
  /\ heap \in [1..1 -> FmtVals]
  /\ savedList = <<>>
  /\ base \in FmtBases
  /\ decimals \in FmtDecimals
  /\ degmode = FALSE
  /\ debug = FALSE
  /\ single \in BOOLEAN
  /\ out = <<>>
  /\ autoprint = FALSE
  /\ pc = "format"
  /\ nlines = 0
  /\ ntok = 0
  /\ tok = <<>>
  /\ line = <<>>
  /\ input = <<>>
  /\ last = NoDispatch
  /\ lineStart = <<>>
  /\ failed = "none"
  /\ afterFail = FALSE
  /\ changed = FALSE
  /\ printed = FALSE
  /\ one = NoOne
  /\ clean = FALSE

\* stack.printTop; lineStart keeps the value handed to formatNumber.
PrintTop ==
  /\ pc = "format"
  /\ SetMachine(printTop(St), savedList)
  /\ lineStart' = Vals(list, heap)
  /\ pc' = "shown"
  /\ UNCHANGED <<autoprint, nlines, ntok, tok, line, input, last, failed, afterFail,
                 changed, printed, one, clean>>

NextFmt == PrintTop

SpecFmt == InitFmt /\ [][NextFmt]_vars

(***************************************************************************)
(* The interactive loop of main.  One line is read per ReadLine, its       *)
(* tokens are taken one at a time (any token of Tokens may come next, up   *)
(* to MaxTokens per line), and EndLine is the code after the token loop.   *)
(***************************************************************************)
Tokens ==
  { <<"1">>, <<"-", "1">>, <<"+">>, <<"c", "h", "s">>, <<"f", "a", "c">>, <<"p">>,
    <<"h", "e", "x">>, <<"f", "m", "t">>, <<"f", "o", "o">>, <<"q">>, <<"h">> }

IsHelp(token) == token \in {<<"h", "e", "l", "p">>, <<"h">>, <<"?">>}
IsQuit(token) == token \in {<<"q", "u", "i", "t">>, <<"e", "x", "i", "t">>, <<"q">>}

\* ophandler.ignoreResult: set for the commands that push no result.
ignoreResult(handler) ==
  handler.h \in {"p", "c", "=", "d", "dec", "hex", "oct", "debug"}

save(st) == st.list
restore_keeps(st, sv) == st
restore(st, sv) == [st EXCEPT !.list = sv]

CanonSt(st) ==
  LET c == Canon(st.list, <<>>, st.heap)
  IN [st EXCEPT !.list = c.list, !.heap = c.heap]

Init ==
  /\ list = <<>>
  /\ savedList = <<>>
  /\ heap = <<>>
  /\ base = 10
  /\ decimals = 6
  /\ degmode = FALSE
  /\ debug = FALSE
  /\ single = FALSE
  /\ out = <<>>
  /\ autoprint = FALSE
  /\ pc = "read"
  /\ nlines = 0
  /\ ntok = 0
  /\ tok = <<>>
  /\ line = <<>>
  /\ input = <<>>
  /\ last = NoDispatch
  /\ lineStart = <<>>
  /\ failed = "none"
  /\ afterFail = FALSE
  /\ changed = FALSE
  /\ printed = FALSE
  /\ one = NoOne
  /\ clean = TRUE

\* Top of the outer loop: save(), the debug dump, Readline returns a line.
ReadLine ==
  /\ pc = "read"
  /\ nlines < MaxLines
  /\ LET st == IF debug THEN print(St) ELSE St
     IN SetMachine(st, save(St))
  /\ lineStart' = Vals(list, heap)
  /\ autoprint' = FALSE
  /\ pc' = "tokens"
  /\ nlines' = nlines + 1
  /\ ntok' = 0
  /\ tok' = <<>>
  /\ line' = <<>>
  /\ input' = <<>>
  /\ failed' = "none"
  /\ afterFail' = FALSE
  /\ changed' = FALSE
  /\ printed' = FALSE
  /\ UNCHANGED <<last, one, clean>>

\* Readline returns an error (end of input): the loop is left.
Eof ==
  /\ pc = "read"
  /\ LET st == IF debug THEN print(St) ELSE St
     IN SetMachine(st, save(St))
  /\ pc' = "exited"
  /\ UNCHANGED <<autoprint, nlines, ntok, tok, line, input, last, lineStart, failed,
                 afterFail, changed, printed, one, clean>>

TakeToken(token) ==
  /\ pc = "tokens"
  /\ ntok < MaxTokens
  /\ ntok' = ntok + 1
  /\ tok' = token
  /\ line' = Append(line, token)
  /\ input' = input
  /\ afterFail' = (afterFail \/ failed = "token")

\* The same token in the single-line evaluation `one`.
OneOperate(handler, ro) ==
  IF ro.kind = "ok"
  THEN [st |-> CanonSt(ro.st), autoprint |-> ~ignoreResult(handler)]
  ELSE NoOne

\* A token found in opmap: operation(), then restore and break on error.
Operate(token) ==
  /\ TakeToken(token)
  /\ InOpmap(token)
  /\ LET handler == opmap(token)
     IN /\ InBounds(handler, St)
        /\ clean => InBounds(handler, one.st)
        /\ \E r \in operation(handler, St) :
             /\ CASE r.kind = "ok" ->
                       /\ SetMachine(r.st, savedList)
                       /\ autoprint' = ~ignoreResult(handler)
                       /\ pc' = "tokens"
                       /\ failed' = failed
                       /\ changed' = (changed \/ r.remove > 0 \/ Len(r.ret) > 0)
                  [] r.kind \in {"err", "internal"} ->
                       /\ SetMachine(restore(r.st, savedList), savedList)
                       /\ autoprint' = autoprint
                       /\ pc' = "eol"
                       /\ failed' = "op"
                       /\ changed' = changed
                  [] r.kind = "panic" ->
                       /\ SetMachine(r.st, savedList)
                       /\ pc' = "crashed"
                       /\ UNCHANGED <<autoprint, failed, changed>>
                  [] r.kind = "hang" ->
                       /\ SetMachine(r.st, savedList)
                       /\ pc' = "hung"
                       /\ UNCHANGED <<autoprint, failed, changed>>
             /\ IF clean /\ r.kind = "ok"
                THEN \E ro \in operation(handler, one.st) :
                       /\ one' = OneOperate(handler, ro)
                       /\ clean' = (ro.kind = "ok")
                ELSE one' = NoOne /\ clean' = FALSE
  /\ UNCHANGED <<nlines, last, lineStart, printed>>

\* help, h, ?: the help text is shown, nothing changes.
Help(token) ==
  /\ TakeToken(token)
  /\ ~InOpmap(token)
  /\ IsHelp(token)
  /\ UNCHANGED <<list, savedList, heap, base, decimals, degmode, debug, single, out,
                 autoprint, pc, nlines, last, lineStart, failed, changed,
                 printed, one, clean>>

\* quit, exit, q: os.Exit(0).
Quit(token) ==
  /\ TakeToken(token)
  /\ ~InOpmap(token)
  /\ ~IsHelp(token)
  /\ IsQuit(token)
  /\ pc' = "exited"
  /\ UNCHANGED <<list, savedList, heap, base, decimals, degmode, debug, single, out,
                 autoprint, nlines, last, lineStart, failed, changed,
                 printed, one, clean>>

\* Anything else goes to atof: a number is pushed; on a parse error the
\* message is printed, the stack is restored and the loop continues.
Number(token) ==
  /\ TakeToken(token)
  /\ ~InOpmap(token)
  /\ ~IsHelp(token)
  /\ ~IsQuit(token)
  /\ LET n == atof(token)
         o == NewId(heap)
         oo == NewId(one.st.heap)
     IN IF n.err
        THEN /\ SetMachine(restore(St, savedList), savedList)
             /\ failed' = "token"
             /\ one' = NoOne
             /\ clean' = FALSE
        ELSE /\ SetMachine(push([St EXCEPT !.heap = (o :> n.v) @@ heap], <<o>>),
                           savedList)
             /\ failed' = failed
             /\ IF clean
                THEN one' = [one EXCEPT !.st =
                       CanonSt(push([one.st EXCEPT !.heap = (oo :> n.v) @@ one.st.heap],
                                    <<oo>>))]
                ELSE one' = one
             /\ clean' = clean
  /\ UNCHANGED <<autoprint, pc, nlines, last, lineStart, changed, printed>>

\* After the token loop: the top of the stack is printed when autoprint is
\* set, and the outer loop starts over.
EndLine ==
  /\ pc \in {"tokens", "eol"}
  /\ SetMachine(IF autoprint THEN printTop(St) ELSE St, savedList)
  /\ printed' = autoprint
  /\ pc' = "read"
  /\ UNCHANGED <<autoprint, nlines, ntok, tok, line, input, last, lineStart, failed,
                 afterFail, changed, one, clean>>

Next ==
  \/ ReadLine
  \/ Eof
  \/ \E token \in Tokens : Operate(token)
  \/ \E token \in Tokens : Help(token)
  \/ \E token \in Tokens : Quit(token)
  \/ \E token \in Tokens : Number(token)
  \/ EndLine

Spec == Init /\ [][Next]_vars

(***************************************************************************)
(* SpecCtl: the loop fed with lines of the base and angle commands and the *)
(* literal 1, from the new machine.                                        *)
(***************************************************************************)
CtlTokens ==
  { <<"d", "e", "c">>, <<"b", "i", "n">>, <<"o", "c", "t">>, <<"h", "e", "x">>,
    <<"d", "e", "g">>, <<"r", "a", "d">>, <<"1">> }

NextCtl ==
  \/ ReadLine
  \/ Eof
  \/ \E token \in CtlTokens : Operate(token)
  \/ \E token \in CtlTokens : Number(token)
  \/ EndLine

SpecCtl == Init /\ [][NextCtl]_vars

(***************************************************************************)
(* SpecLine: the loop reading its last line, the stack holding any values  *)
(* of LineVals in up to two cells (possibly one object twice, as dup       *)
(* leaves them) and the output base being any of LineBases.                *)
(***************************************************************************)
LineVals == {Rat(-1, 1), Rat(1, 2), Rat(2, 1), TwoTo64}
LineBases == {10, 16}

InitLine ==
  /\ list \in {l \in OpStacks : Len(l) <= 2}
  /\ heap \in [1..Cardinality({list[i] : i \in 1..Len(list)}) -> LineVals]
  /\ savedList = <<>>
  /\ base \in LineBases
  /\ decimals = 6
  /\ degmode = FALSE
  /\ debug = FALSE
  /\ single = FALSE
  /\ out = <<>>
  /\ autoprint = FALSE
  /\ pc = "read"
  /\ nlines = MaxLines - 1
  /\ ntok = 0
  /\ tok = <<>>
  /\ line = <<>>
  /\ input = <<>>
  /\ last = NoDispatch
  /\ lineStart = <<>>
  /\ failed = "none"
  /\ afterFail = FALSE
  /\ changed = FALSE
  /\ printed = FALSE
  /\ one = NoOne
  /\ clean = FALSE

SpecLine == InitLine /\ [][Next]_vars

(***************************************************************************)
(* Numeric literals: the tokens of one line are all literals, each handed  *)
(* to atof by the loop's default branch.                                   *)
(***************************************************************************)
Literals ==
  { <<"0">>, <<"2", "5">>, <<"-", "1", ".", "5">>, <<"0", ".", "2", "5">>, <<".", "2">>,
    <<"0", "1", "5">>, <<"o", "2", "0">>, <<"0", "8">>,
    <<"0", "b", "1", "0", "1">>, <<"0", "B", "1", "1">>,
    <<"0", "x", "1", "f">>, <<"0", "X", "1", "F">>, <<"0", "x">> }

InitAtof ==
  /\ list = <<>>
  /\ savedList = <<>>
  /\ heap = <<>>
  /\ base = 10
  /\ decimals = 6
  /\ degmode = FALSE
  /\ debug = FALSE
  /\ single = FALSE
  /\ out = <<>>
  /\ autoprint = FALSE
  /\ pc = "tokens"
  /\ nlines = 1
  /\ ntok = 0
  /\ tok = <<>>
  /\ line = <<>>
  /\ input = <<>>
  /\ last = NoDispatch
  /\ lineStart = <<>>
  /\ failed = "none"
  /\ afterFail = FALSE
  /\ changed = FALSE
  /\ printed = FALSE
  /\ one = NoOne
  /\ clean = FALSE

NextAtof == \E token \in Literals : Number(token)

SpecAtof == InitAtof /\ [][NextAtof]_vars

(***************************************************************************)
(* A line given as text: it is cleaned, split into fields, and the fields  *)
(* go through the token loop in order.                                     *)
(***************************************************************************)
Alnum ==
  {"0", "1", "2", "3", "4", "5", "6", "7", "8", "9",
   "a", "b", "c", "d", "e", "f", "g", "h", "i", "j", "k", "l", "m",
   "n", "o", "p", "q", "r", "s", "t", "u", "v", "w", "x", "y", "z",
   "A", "B", "C", "D", "E", "F", "G", "H", "I", "J", "K", "L", "M",
   "N", "O", "P", "Q", "R", "S", "T", "U", "V", "W", "X", "Y", "Z"}
WhiteSpace == {" ", "\t"}
OpSymbols == {"+", "-", "*", "/", "%", "^", "=", "."}

\* Every character that is not alphanumeric, whitespace or an operator symbol
\* is removed from the line.
cleanInput_identity(s) == s
cleanInput(s) == SelectSeq(s, LAMBDA c : c \in Alnum \cup WhiteSpace \cup OpSymbols)

\* strings.Fields: the maximal runs of non-space characters, in order.
RECURSIVE Fields(_)
Fields(s) ==
  IF s = <<>> THEN <<>>
  ELSE IF s[1] \in WhiteSpace THEN Fields(Tail(s))
  ELSE LET ends == {i \in 1..Len(s) : i = Len(s) \/ s[i + 1] \in WhiteSpace}
           n == CHOOSE i \in ends : \A j \in ends : i <= j
       IN <<SubSeq(s, 1, n)>> \o Fields(SubSeq(s, n + 1, Len(s)))

\* Numbers as they are pasted, each with its plain spelling.
RawNums ==
  { [raw |-> <<"$", "2", ",", "5", "0", "0", ".", "0", "0">>,
     plain |-> <<"2", "5", "0", "0", ".", "0", "0">>],
    [raw |-> <<"€", "3", ",", "5", "0", "0", ".", "0", "0">>,
     plain |-> <<"3", "5", "0", "0", ".", "0", "0">>],
    [raw |-> <<"1", ",", "0", "0", "0">>, plain |-> <<"1", "0", "0", "0">>],
    [raw |-> <<"(", "3", ")">>, plain |-> <<"3">>],
    [raw |-> <<"$", "0", ".", "5", "0">>, plain |-> <<"0", ".", "5", "0">>],
    [raw |-> <<"2">>, plain |-> <<"2">>] }
RawOps == {<<"+">>, <<"-">>}
RawLine(a, b, op) == a \o <<" ">> \o b \o <<" ", " ">> \o op

InitClean ==
  /\ list = <<>>
  /\ savedList = <<>>
  /\ heap = <<>>
  /\ base = 10
  /\ decimals = 6
  /\ degmode = FALSE
  /\ debug = FALSE
  /\ single = FALSE
  /\ out = <<>>
  /\ autoprint = FALSE
  /\ pc = "tokens"
  /\ nlines = 1
  /\ ntok = 0
  /\ tok = <<>>
  /\ line = <<>>
  /\ input \in {RawLine(a.raw, b.raw, op) : a \in RawNums, b \in RawNums, op \in RawOps}
  /\ last = NoDispatch
  /\ lineStart = <<>>
  /\ failed = "none"
  /\ afterFail = FALSE
  /\ changed = FALSE
  /\ printed = FALSE
  /\ one = NoOne
  /\ clean = FALSE

\* The field the token loop takes next, if any.
NextField ==
  LET f == Fields(cleanInput(input))
  IN IF ntok < Len(f) THEN {f[ntok + 1]} ELSE {}

NextClean ==
  \/ \E token \in NextField : Operate(token)
  \/ \E token \in NextField : Number(token)
  \/ (pc = "eol" \/ NextField = {}) /\ EndLine

SpecClean == InitClean /\ [][NextClean]_vars

(***************************************************************************)
(* Properties of a single dispatch (SpecOp).                               *)
(***************************************************************************)
Done == pc = "done"
Post == Vals(list, heap)
PreLen == Len(last.pre)
PreX == last.pre[PreLen]
PreY == last.pre[PreLen - 1]

\* C3: an operation of arity n applied to a stack of fewer than n elements
\* returns the underflow error, its handler is not invoked, and the stack
\* is left as it was.
C3_UnderflowIsError ==
  (Done /\ PreLen < last.numArgs) =>
     /\ last.kind = "err"
     /\ ~last.called
     /\ Post = last.pre

C3_Witness ==
  Done /\ last.numArgs = 2 /\ PreLen = 1 /\ last.kind = "err"

\* C4: every dispatch ends in a result or a returned error: no handler
\* indexes an argument the stack does not hold, none fails to return.
C4_NoCrash == Done => last.kind \in {"ok", "err", "internal"}

\* C5: after a successful dispatch the stack is the stack before it with
\* the top `remove` cells taken off and the returned values appended in
\* order; the cells below keep their values.
C5_RemoveThenPush ==
  (Done /\ last.kind = "ok") =>
     Post = SubSeq(last.pre, 1, PreLen - last.remove) \o last.ret

\* C6: the non-commutative binary operators compute y op x with x the top
\* of the stack and y the cell below it, and leave the result on top.
\* The expected results are stated on the numerators and denominators.
C6_YOpX ==
  (Done /\ last.kind = "ok" /\ PreLen >= 2 /\ IsFinite(PreX) /\ IsFinite(PreY)) =>
     LET r == last.ret[1]
         x == PreX
         y == PreY
     IN /\ last.h \in {"-", "/", "^", "mod", "lshift", "rshift"} =>
             Len(last.ret) = 1 /\ Post[Len(Post)] = r
        /\ last.h = "-" =>
             IsFinite(r) /\ r.n * (y.d * x.d) = r.d * (y.n * x.d - x.n * y.d)
        /\ (last.h = "/" /\ ~IsZero(x)) =>
             IsFinite(r) /\ r.n * (y.d * x.n) = r.d * (y.n * x.d)
        /\ (last.h = "^" /\ IsInt(x) /\ x.n > 0) =>
             IsFinite(r) /\ r.n * IntPow(y.d, x.n) = r.d * IntPow(y.n, x.n)
        /\ (last.h = "mod" /\ IsInt(x) /\ IsInt(y) /\ x.n > 0 /\ y.n >= 0) =>
             r = bigUint(y.n % x.n)
        /\ (last.h = "lshift" /\ IsInt(x) /\ IsInt(y) /\ x.n >= 0 /\ y.n >= 0) =>
             r = bigUint(y.n * IntPow(2, x.n))
        /\ (last.h = "rshift" /\ IsInt(x) /\ IsInt(y) /\ x.n >= 0 /\ y.n >= 0) =>
             r = bigUint(y.n \div IntPow(2, x.n))

\* `10 2 /` leaves 5.
C6_Witness ==
  /\ Done /\ last.h = "/" /\ last.kind = "ok"
  /\ last.pre = <<bigUint(10), bigUint(2)>>
  /\ Post = <<bigUint(5)>>

\* C10: dividing by zero is no error: "/" with x = 0 succeeds, consumes both
\* operands and pushes an Infinity with the sign of y when y is a non-zero
\* number and NaN when y is 0; "inv" of 0 succeeds and pushes Infinity.
C10_DivByZero ==
  /\ (Done /\ last.h = "/" /\ PreLen >= 2 /\ IsZero(PreX)) =>
        /\ last.kind = "ok"
        /\ last.remove = 2
        /\ Len(last.ret) = 1
        /\ Post = SubSeq(last.pre, 1, PreLen - 2) \o last.ret
        /\ (IsFinite(PreY) /\ ~IsZero(PreY)) =>
              last.ret[1] = Inf(IF PreY.n < 0 THEN -1 ELSE 1)
        /\ IsZero(PreY) => IsNaN(last.ret[1])
  /\ (Done /\ last.h = "inv" /\ PreLen >= 1 /\ IsZero(PreX)) =>
        /\ last.kind = "ok"
        /\ last.remove = 1
        /\ last.ret = <<Inf(1)>>
        /\ Post = SubSeq(last.pre, 1, PreLen - 1) \o last.ret

C10_Witness ==
  /\ Done /\ last.h = "/" /\ last.kind = "ok"
  /\ last.pre = <<Rat(-2, 1), big>>
  /\ Post = <<Inf(-1)>>

\* C11: fac on a non-negative integer x (up to MaxFac) succeeds, replaces x
\* by x! (0! = 1; the expected values are tabulated here, not computed by
\* the handler's loop) and leaves every cell below as it was.
C11_Factorial ==
  (Done /\ last.h = "fac" /\ PreLen >= 1 /\ IsInt(PreX) /\ PreX.n >= 0) =>
     LET table == <<1, 1, 2, 6, 24, 120, 720, 5040, 40320>>
     IN /\ last.kind = "ok"
        /\ Post = SubSeq(last.pre, 1, PreLen - 1) \o <<bigUint(table[PreX.n + 1])>>

\* `5 fac` leaves 120 on top of an untouched cell.
C11_Witness ==
  /\ Done /\ last.h = "fac" /\ last.kind = "ok"
  /\ last.pre = <<bigUint(2), bigUint(5)>>
  /\ Post = <<bigUint(2), bigUint(120)>>

(***************************************************************************)
(* Properties of the interactive loop (Spec).                              *)
(***************************************************************************)
LineOver == pc = "read" /\ nlines > 0

\* The stack the single-line evaluation ends with, its own end-of-line
\* print included.
OneFinal == IF one.autoprint THEN printTop(one.st) ELSE one.st

\* C1: a line that hit an error (unrecognized token, underflow or handler
\* error) leaves the stack exactly as it was when the line began.
C1_FailedLineRestores ==
  (LineOver /\ failed # "none") => Post = lineStart

\* C2: once a token of the line was found to be neither an operation, a
\* control word nor a number, no later token of that line is pushed or
\* executed.
C2_StopAtBadToken == ~afterFail

\* C7: for tokens that evaluate without error the stack at the end of a
\* line is the one obtained by evaluating all tokens so far as one line.
C7_ContinuousAcrossLines ==
  (LineOver /\ clean) => Post = Vals(OneFinal.list, OneFinal.heap)

\* C8: after a line processed without error, auto-print is signalled
\* exactly when some operation of the line consumed or produced cells.
C8_AutoprintIffChanged ==
  (LineOver /\ failed = "none") => (printed <=> changed)

\* C9: a line aborted by an error never signals auto-print.
C9_NoAutoprintAfterError ==
  (LineOver /\ failed # "none") => ~printed

\* C12 (as the code has it): the line `-1 fac` reports an error and the
\* stack after it equals the stack before the line: the restore that
\* follows the error of fac also takes the pushed -1 off again.
C12_MinusOneFacRestores ==
  (LineOver /\ line = << <<"-", "1">>, <<"f", "a", "c">> >>) =>
     /\ failed = "op"
     /\ Post = lineStart

\* C12 (as stated): the line `-1 fac` reports an error and the stack after
\* it is the stack before the line with the pushed -1 on top.
C12_MinusOneStays ==
  (LineOver /\ line = << <<"-", "1">>, <<"f", "a", "c">> >>) =>
     /\ failed = "op"
     /\ Post = lineStart \o <<Rat(-1, 1)>>

C12_Witness ==
  /\ LineOver /\ line = << <<"-", "1">>, <<"f", "a", "c">> >>
  /\ failed = "op"
  /\ lineStart = <<bigUint(2)>>
  /\ Post = <<bigUint(2)>>

(***************************************************************************)
(* Properties of formatNumber (SpecFmt).                                   *)
(***************************************************************************)
Shown == pc = "shown"
FmtIn == lineStart[1]

\* C13: an unsigned integer formatted in base 2, 8 or 16 and read back as a
\* numeric literal gives the same value.
C13_RoundTrip ==
  (Shown /\ base \in {2, 8, 16} /\ IsInt(FmtIn) /\ FmtIn.n >= 0) =>
     /\ ~atof(out).err
     /\ atof(out).v = FmtIn

Prefix(b) == CASE b = 2 -> <<"0", "b">> [] b = 8 -> <<"0">> [] OTHER -> <<"0", "x">>
TruncatedFrom(v) ==
  <<" ", "(", "t", "r", "u", "n", "c", "a", "t", "e", "d", " ", "f", "r", "o", "m", " ">>
    \o formatNumber(v, 10, decimals, TRUE) \o <<")">>

\* C14: in base 2, 8 or 16 a finite value below 2^64 in magnitude is shown as
\* a "-" iff it is negative, the prefix of the base, the base-b digits of the
\* floor of its magnitude, and " (truncated from <base-10 rendering>)" iff it
\* is not integral.
C14_BaseRendering ==
  (Shown /\ base \in {2, 8, 16} /\ FmtIn.k = "fin") =>
     LET neg == FmtIn.n < 0
         body == IF out # <<>> /\ out[1] = "-" THEN Tail(out) ELSE out
         sp == Index(body, " ")
         numeral == IF sp >= 0 THEN SubSeq(body, 1, sp) ELSE body
         rest == IF sp >= 0 THEN Tail2(body, sp) ELSE <<>>
         digs == Tail2(numeral, Len(Prefix(base)))
     IN /\ (out # <<>> /\ out[1] = "-") <=> neg
        /\ HasPrefix(numeral, Prefix(base))
        /\ digs # <<>>
        /\ \A i \in 1..Len(digs) : \E j \in 1..base : digs[i] = Digits[j]
        /\ Len(digs) > 1 => digs[1] # "0"
        /\ DigitsValue(digs, base, Len(digs)) * FmtIn.d <= Abs(FmtIn.n)
        /\ (DigitsValue(digs, base, Len(digs)) + 1) * FmtIn.d > Abs(FmtIn.n)
        /\ rest = IF IsInt(FmtIn) THEN <<>> ELSE TruncatedFrom(FmtIn)

C14_Witness ==
  /\ Shown /\ base = 16 /\ FmtIn = Rat(-511, 2)
  /\ out = <<"-", "0", "x", "f", "f">> \o TruncatedFrom(Rat(-511, 2))
  /\ formatNumber(Rat(-511, 2), 10, decimals, TRUE) = <<"-", "2", "5", "5", ".", "5">>

\* The digits before the point of a rendering, sign left out.
IntPart(s) ==
  LET u == IF s # <<>> /\ s[1] = "-" THEN Tail(s) ELSE s
      i == Index(u, ".")
  IN IF i >= 0 THEN SubSeq(u, 1, i) ELSE u
Ungroup(s) == SelectSeq(s, LAMBDA c : c # ",")
\* A comma stands exactly before every group of three digits of the integer
\* part, and nowhere else.
WellGrouped(s) ==
  LET ip == IntPart(s)
  IN /\ \A i \in 1..Len(ip) : (ip[i] = ",") <=> ((Len(ip) - i + 1) % 4 = 0)
     /\ \A i \in 1..Len(s) : s[i] = "," => i <= Len(s) - Len(Ungroup(s)) + Len(IntPart(Ungroup(s))) + 1

\* C16: in base 10 the output is the plain rendering, followed by the grouped
\* rendering in parentheses iff the integer part has more than three digits
\* and the mode is interactive; in single-shot mode it is the plain rendering.
C16_Base10Rendering ==
  (Shown /\ base = 10 /\ FmtIn.k \in {"fin", "big"}) =>
     LET sp == Index(out, " ")
         plain == IF sp >= 0 THEN SubSeq(out, 1, sp) ELSE out
         rest == IF sp >= 0 THEN Tail2(out, sp) ELSE <<>>
         grouped == SubSeq(rest, 3, Len(rest) - 1)
     IN /\ (rest # <<>>) <=> (Len(IntPart(plain)) > 3 /\ ~single)
        /\ rest # <<>> =>
              /\ Len(rest) > 3
              /\ rest[1] = " " /\ rest[2] = "(" /\ rest[Len(rest)] = ")"
              /\ grouped # plain
              /\ Ungroup(grouped) = plain
              /\ WellGrouped(grouped)
        /\ (plain # <<>> /\ plain[1] = "-") <=> FmtIn.n < 0
        /\ (FmtIn.k = "fin" /\ FmtIn.d \in {1, 2}) =>
              ParseFloat(plain) = [err |-> FALSE, v |-> FmtIn]
        /\ FmtIn.k = "big" => IntPart(plain) = TwoTo64Digits
        /\ Contains(plain, ".") => plain[Len(plain)] \notin {"0", "."}

C16_Witness ==
  /\ Shown /\ base = 10 /\ ~single /\ FmtIn = Rat(1000, 1)
  /\ out = <<"1", "0", "0", "0", " ", "(", "1", ",", "0", "0", "0", ")">>

\* C17: formatting leaves the formatted value as it was, in every base.
C17_FormatLeavesValue == Shown => Post = lineStart

(***************************************************************************)
(* Properties of numeric literals (SpecAtof).                              *)
(***************************************************************************)
\* The value a literal stands for: 0b/0B base 2, 0x/0X base 16, a leading 0
\* or o not followed by a point base 8, anything else decimal.
LiteralValue(s) ==
  CASE (HasPrefix(s, <<"0", "b">>) \/ HasPrefix(s, <<"0", "B">>)) /\ Len(s) > 2 ->
         ParseUint(Tail2(s, 2), 2)
    [] (HasPrefix(s, <<"0", "x">>) \/ HasPrefix(s, <<"0", "X">>)) /\ Len(s) > 2 ->
         ParseUint(Tail2(s, 2), 16)
    [] (HasPrefix(s, <<"0">>) \/ HasPrefix(s, <<"o">>)) /\ Len(s) > 1 /\ s[2] # "." ->
         ParseUint(Tail2(s, 1), 8)
    [] OTHER -> ParseFloat(s)

\* C18: a literal is read in the base its prefix names (0b, 0x, leading 0 or
\* o not followed by a point, decimal otherwise) and its value is pushed.
C18_LiteralBase ==
  (ntok > 0 /\ ~LiteralValue(tok).err) =>
     /\ list # <<>>
     /\ heap[list[Len(list)]] = LiteralValue(tok).v

(***************************************************************************)
(* Properties of input cleaning (SpecClean).                               *)
(***************************************************************************)
ExampleLine ==
  <<"$", "2", ",", "5", "0", "0", ".", "0", "0", " ",
    "€", "3", ",", "5", "0", "0", ".", "0", "0", " ", " ", "+">>

\* C19: the characters that are not alphanumeric, whitespace or one of
\* + - * / % ^ = . are gone before the line is split, so a pasted number is
\* the token its plain spelling is, and "$2,500.00 €3,500.00 +" leaves 6000.
C19_PastedNumbers ==
  /\ \A i \in 1..Len(line) : \A j \in 1..Len(line[i]) :
        line[i][j] \in Alnum \cup OpSymbols
  /\ \A a \in RawNums, b \in RawNums, op \in RawOps :
        (pc = "read" /\ input = RawLine(a.raw, b.raw, op)) =>
           /\ line = <<a.plain, b.plain, op>>
           /\ (~atof(a.plain).err /\ ~atof(b.plain).err /\ op = <<"+">>) =>
                 /\ failed = "none"
                 /\ Post = <<Add(ParseFloat(a.plain).v, ParseFloat(b.plain).v)>>
  /\ (pc = "read" /\ input = ExampleLine) => Post = <<Rat(6000, 1)>>

C19_Witness ==
  /\ pc = "read" /\ input = ExampleLine
  /\ line = << <<"2", "5", "0", "0", ".", "0", "0">>, <<"3", "5", "0", "0", ".", "0", "0">>, <<"+">> >>
  /\ failed = "none"
  /\ Post = <<Rat(6000, 1)>>

(***************************************************************************)
(* Formatting inside the interactive loop (SpecLine).                      *)
(***************************************************************************)
HasSubstring(s, t) ==
  \E i \in 0..(Len(s) - Len(t)) : SubSeq(s, i + 1, i + Len(t)) = t

TopIsBig == list # <<>> /\ heap[list[Len(list)]].k = "big"

\* C15: when the top of the stack does not fit a uint64 and the base is 2, 8
\* or 16, the print that ends a line shows a text naming the uint64 limit and
\* is no error: the line's failure status and the stack's cells stay as they
\* are.
C15_InvalidNumberIsNoError ==
  [][(pc \in {"tokens", "eol"} /\ autoprint /\ base \in {2, 8, 16} /\ TopIsBig
        /\ pc' = "read")
       => /\ HasSubstring(out', <<"u", "i", "n", "t", "6", "4">>)
          /\ failed' = failed
          /\ list' = list]_vars

C15_Witness ==
  /\ LineOver /\ line = << <<"c", "h", "s">> >> /\ printed /\ base = 16
  /\ failed = "none"
  /\ TopIsBig /\ lineStart = <<TwoTo64>>
  /\ out = InvalidNumber

(***************************************************************************)
(* The end of the session (Spec).                                          *)
(***************************************************************************)
Running == {"read", "tokens", "eol"}

\* C20: the session ends only by a quit token or the end of the input; a
\* line that failed is followed by the next read; a quit token ends the
\* session at once, with nothing printed or applied after it.
C20_EndsOnlyOnQuitOrEof ==
  [][/\ (pc \in Running /\ pc' \notin Running) =>
           /\ pc' = "exited"
           /\ \/ pc = "read"
              \/ /\ pc = "tokens" /\ IsQuit(tok')
                 /\ out' = out /\ list' = list /\ heap' = heap /\ printed' = printed
     /\ pc = "eol" => pc' = "read"
     /\ (pc = "tokens" /\ IsQuit(tok')) => pc' = "exited"
     /\ pc \notin Running => UNCHANGED vars]_vars

(***************************************************************************)
(* Properties of a single dispatch, continued (SpecOp).                    *)
(***************************************************************************)
Context == <<base, decimals, degmode, debug>>
ContextOps == {"dec", "bin", "oct", "hex", "deg", "rad", "fmt", "debug"}

\* C21: the display context (base, decimals, angle mode, debug flag) is
\* changed only by dec, bin, oct, hex, deg, rad, fmt and debug; a pushed
\* literal and every other operation leave the four fields as they were.
C21_ContextOnlyByControl ==
  [][Context' # Context => last'.h \in ContextOps]_vars

C21_Witness ==
  /\ Done /\ last.h = "push" /\ tok = <<"0", "x", "1", "f">>
  /\ Post = last.pre \o <<bigUint(31)>>
  /\ base = 16 /\ decimals = 6 /\ ~degmode /\ ~debug

C23_NoInternalError ==
  /\ Done => last.kind # "internal"
  /\ (Done /\ last.kind = "ok") => last.remove <= PreLen

\* sum on three cells consumes all three.
C23_Witness ==
  Done /\ last.h = "sum" /\ last.called /\ last.kind = "ok" /\ PreLen = 3 /\ last.remove = 3

\* C24: x exchanges the two top cells and leaves the cells below alone, and
\* a second x right after it gives back the stack as it was.
C24_ExchangeInvolution ==
  (Done /\ last.h = "x" /\ PreLen >= 2) =>
     /\ last.kind = "ok"
     /\ Post = SubSeq(last.pre, 1, PreLen - 2) \o <<PreX, PreY>>
     /\ \A r \in operation(opmap(<<"x">>), St) :
           r.kind = "ok" /\ Vals(r.st.list, r.st.heap) = last.pre

C24_Witness ==
  /\ Done /\ last.h = "x" /\ last.kind = "ok"
  /\ last.pre = <<bigUint(5), bigUint(2), bigUint(10)>>
  /\ Post = <<bigUint(5), bigUint(10), bigUint(2)>>

\* Numerator and denominator of the sum of the first i values of vs.
RECURSIVE FracSum(_, _)
FracSum(vs, i) ==
  IF i = 0 THEN <<0, 1>>
  ELSE LET s == FracSum(vs, i - 1)
       IN <<s[1] * vs[i].d + vs[i].n * s[2], s[2] * vs[i].d>>

\* C25: sum on a non-empty stack consumes the whole stack and leaves one
\* cell, the sum of the cells there were; on the empty stack it returns the
\* underflow error and the stack stays empty.
C25_SumConsumesAll ==
  /\ (Done /\ last.h = "sum" /\ PreLen = 0) =>
        last.kind = "err" /\ ~last.called /\ Post = <<>>
  /\ (Done /\ last.h = "sum" /\ PreLen >= 1) =>
        /\ last.kind = "ok"
        /\ last.remove = PreLen
        /\ Len(Post) = 1
        /\ (\A i \in 1..PreLen : IsFinite(last.pre[i])) =>
              /\ IsFinite(Post[1])
              /\ Post[1].n * FracSum(last.pre, PreLen)[2]
                   = Post[1].d * FracSum(last.pre, PreLen)[1]

C25_Witness ==
  /\ Done /\ last.h = "sum" /\ last.kind = "ok"
  /\ last.pre = <<Rat(1, 2), bigUint(2), bigUint(10)>>
  /\ Post = <<Rat(25, 2)>>

\* C26: % consumes x and y and pushes the one value y*x/100: the stack is
\* one cell shorter and y is no longer below the result.
C26_PercentConsumesBoth ==
  (Done /\ last.h = "%" /\ PreLen >= 2 /\ IsFinite(PreX) /\ IsFinite(PreY)) =>
     /\ last.kind = "ok"
     /\ Len(Post) = PreLen - 1
     /\ SubSeq(Post, 1, PreLen - 2) = SubSeq(last.pre, 1, PreLen - 2)
     /\ IsFinite(Post[PreLen - 1])
     /\ Post[PreLen - 1].n * (100 * PreX.d * PreY.d)
          = Post[PreLen - 1].d * (PreX.n * PreY.n)

\* C27: the names of the registry are unique, so that a token dispatches
\* the one handler listed under its name; MB pushes 10^6.
C27_UniqueNames ==
  (Done /\ last.h # "push") =>
     /\ Cardinality({i \in 1..Len(ops) : ops[i].op = tok}) = 1
     /\ \A i \in 1..Len(ops) : ops[i].op = tok => last.h = ops[i].h
     /\ tok = <<"M", "B">> => last.ret = <<bigUint(1000000)>>

\* C29: every handler returns on every stack content: the loop of fac
\* ends for every operand, the infinities and NaN included.
C29_HandlersReturn == Done => last.kind # "hang"

(***************************************************************************)
(* Properties of the loop, continued                                       *)
(***************************************************************************)
\* A step of the token loop that dispatches chs and succeeds.
ChsStep ==
  /\ pc = "tokens" /\ pc' = "tokens"
  /\ ntok' = ntok + 1
  /\ tok' = <<"c", "h", "s">>
  /\ Len(list) >= 1

\* C28: chs changes the value of the top cell only: the cells below it, a
\* cell made by dup included, and the snapshot of the current line keep
\* their values.
C28_ChsOnlyTop ==
  [][ChsStep =>
        /\ Len(list') = Len(list)
        /\ \A i \in 1..(Len(list) - 1) : heap'[list'[i]] = heap[list[i]]
        /\ Vals(savedList', heap') = Vals(savedList, heap)]_vars

(***************************************************************************)
(* Properties of the base and angle commands (SpecCtl)                     *)
(***************************************************************************)
\* C30: the output base is always one of 2, 8, 10, 16, and it is 10
\* whenever the angle mode is degrees.
C30_BaseAndAngle ==
  /\ base \in {2, 8, 10, 16}
  /\ degmode => base = 10

\* deg after hex: degrees, and the base back at 10.
C30_Witness ==
  /\ pc = "tokens"
  /\ line = << <<"h", "e", "x">>, <<"d", "e", "g">> >>
  /\ degmode
  /\ base = 10

\* hex after deg: base 16, and the angle mode back at radians.
C30_WitnessRadians ==
  /\ pc = "tokens"
  /\ line = << <<"d", "e", "g">>, <<"h", "e", "x">> >>
  /\ ~degmode
  /\ base = 16

====
